---------------------------- MODULE Spec2Model ----------------------------
(***************************************************************************)
(* A model of the voxel-chunk core of RustyCraft (src/src/chunk.rs):       *)
(* the column-major sparse block store and its queries, flat-file          *)
(* persistence, and cross-chunk visible-face meshing.                      *)
(*                                                                         *)
(* Conventions.  Positions are glam::Vec3 values holding whole numbers;    *)
(* they are modelled as records [x, y, z] of integers.  A Rust Vec is a    *)
(* sequence, so the element the code calls v[i] is v[i + 1] here.          *)
(* Option<T> is a sequence of length at most one: None is << >> and        *)
(* Some(b) is <<b>>.  A panic (expect / unwrap / index out of bounds)      *)
(* ends the program: the variable aborted records it and every action is   *)
(* disabled afterwards.                                                    *)
(***************************************************************************)
EXTENDS Integers, Sequences, FiniteSets, TLC

VARIABLES
    blocks,     \* Chunk::blocks, the store of the chunk under test
    last,       \* the last operation called: [op, ...] with its arguments
    aborted,    \* TRUE once an operation has panicked
    ops,        \* number of operations called since construction
    chunk,      \* <<Chunk::x, Chunk::y>>, the coordinate of the chunk under test
    outside_blocks, \* Chunk::outside_blocks
    noise_data, \* Chunk::noise_data, the shared noise field
    dir,        \* the directory "data": [exists, files], files: name -> contents
    saved,      \* <<store>> while the chunk's file is as save wrote it from store
    result,     \* what the last Chunk::load returned: [status, blocks]
    other_chunks, \* the loaded chunks handed to build_mesh: [x, y, blocks] each
    mesh,       \* what the last Chunk::build_mesh returned
    pending_trees, \* iterations left of the loop of Chunk::place_trees
    locks,      \* the chunk locks: chunk name -> [readers, writer, waiting]
    pc          \* the position of each thread of the concurrent runs

vars == <<blocks, last, aborted, ops, chunk, outside_blocks, noise_data,
          dir, saved, result, other_chunks, mesh, pending_trees, locks, pc>>

persistVars == <<dir, saved, result>>

meshVars == <<other_chunks, mesh>>

treeVars == <<pending_trees>>

lockVars == <<locks, pc>>

-----------------------------------------------------------------------------
(* Program constants and bounds *)

\* world::CHUNK_SIZE: the footprint of a chunk is CHUNK_SIZE x CHUNK_SIZE
\* columns.  The program's value is defined outside the files modelled here;
\* the model explores a scaled-down footprint.
CHUNK_SIZE == 4

\* world::NOISE_CHUNK_PER_ROW: chunks per row of the noise tile
NOISE_CHUNK_PER_ROW == 4

\* world::NOISE_SIZE: the noise tile is NOISE_SIZE x NOISE_SIZE samples
NOISE_SIZE == NOISE_CHUNK_PER_ROW * CHUNK_SIZE

\* number of operations explored after construction
MaxOps == 3

\* the sequential runs have no threads and take no chunk lock
NoLocks == << >>
NoThreads == << >>

None == << >>
Some(b) == <<b>>

Vec3(x, y, z) == [x |-> x, y |-> y, z |-> z]

\* Block::new: relative position, owning chunk coordinate and type
Block(position, chunk_xy, block_type) ==
    [position |-> position, chunk |-> chunk_xy, block_type |-> block_type]

\* Block::absolute_position: chunk coordinate * CHUNK_SIZE + relative position
AbsolutePosition(block) ==
    Vec3(block.chunk[1] * CHUNK_SIZE + block.position.x,
         block.position.y,
         block.chunk[2] * CHUNK_SIZE + block.position.z)

\* `f as usize` / `f as u32` on a float: saturating, so a negative value is 0
\* (the upper saturation is never reached by the values explored here)
AsUnsigned(f) == IF f < 0 THEN 0 ELSE f

\* the length of the longest column of a store
MaxStoreHeight(store) ==
    LET lens == {Len(store[i]) : i \in 1..Len(store)}
    IN  CHOOSE m \in lens \cup {0} : \A l \in lens : l <= m

\* vec![vec![]; CHUNK_SIZE * CHUNK_SIZE]
EmptyStore == [i \in 1..(CHUNK_SIZE * CHUNK_SIZE) |-> << >>]

-----------------------------------------------------------------------------
(* Chunk::is_outside_chunk, Chunk::is_outside_bounds *)

is_outside_chunk(position) ==
    \/ position.x < 0
    \/ position.x >= CHUNK_SIZE
    \/ position.z < 0
    \/ position.z >= CHUNK_SIZE

is_outside_bounds(position) == position.y < 0

-----------------------------------------------------------------------------
(* The block store operations.  Each returns [ok, blocks]: ok = FALSE is a *)
(* panic, which leaves the store as it was.                                *)

\* ((position.x * CHUNK_SIZE as f32) + position.z) as usize
FloatColumnIndex(position) == AsUnsigned(position.x * CHUNK_SIZE + position.z)

\* ((position.x as u32 * CHUNK_SIZE) + position.z as u32) as usize
UintColumnIndex(position) ==
    AsUnsigned(position.x) * CHUNK_SIZE + AsUnsigned(position.z)

\* a growth loop that pushes one placeholder too many
GrowColumn_overshoot(y_blocks, y) ==
    IF Len(y_blocks) > y THEN y_blocks
    ELSE y_blocks \o [i \in 1..(y + 2 - Len(y_blocks)) |-> None]

\* for i in start_len..=y { if i >= y_blocks.len() { y_blocks.push(None) } }
GrowColumn(y_blocks, y) ==
    IF Len(y_blocks) > y THEN y_blocks
    ELSE y_blocks \o [i \in 1..(y + 1 - Len(y_blocks)) |-> None]

add_block(store, block) ==
    LET idx == FloatColumnIndex(block.position)
        y   == AsUnsigned(block.position.y)
    IN  IF idx >= Len(store)
        THEN [ok |-> FALSE, blocks |-> store]     \* expect("Cannot add oob block")
        ELSE [ok |-> TRUE,
              blocks |-> [store EXCEPT ![idx + 1] =
                            [GrowColumn(@, y) EXCEPT ![y + 1] = Some(block)]]]

\* a remove_block that truncates the column at the removed slot
remove_block_truncating(store, position) ==
    LET idx == FloatColumnIndex(position)
        y   == AsUnsigned(position.y)
    IN  IF idx >= Len(store) \/ y >= Len(store[idx + 1])
        THEN [ok |-> FALSE, blocks |-> store]
        ELSE [ok |-> TRUE,
              blocks |-> [store EXCEPT ![idx + 1] = SubSeq(@, 1, y)]]

remove_block(store, position) ==
    LET idx == FloatColumnIndex(position)
        y   == AsUnsigned(position.y)
    IN  IF idx >= Len(store)
        THEN [ok |-> FALSE, blocks |-> store]     \* expect("Cannot delete oob block")
        ELSE IF y >= Len(store[idx + 1])
        THEN [ok |-> FALSE, blocks |-> store]     \* y_blocks[y]: index out of bounds
        ELSE [ok |-> TRUE,
              blocks |-> [store EXCEPT ![idx + 1] = [@ EXCEPT ![y + 1] = None]]]

\* an exists_block_at that indexes the columns z-major
exists_block_at_swapped(store, position) ==
    LET idx == AsUnsigned(position.z) * CHUNK_SIZE + AsUnsigned(position.x)
        y   == AsUnsigned(position.y)
    IN  /\ idx < Len(store)
        /\ y < Len(store[idx + 1])
        /\ store[idx + 1][y + 1] # None

exists_block_at(store, position) ==
    LET idx == UintColumnIndex(position)
        y   == AsUnsigned(position.y)
    IN  /\ idx < Len(store)
        /\ y < Len(store[idx + 1])
        /\ store[idx + 1][y + 1] # None

get_block_at_relative(store, position) ==
    LET idx == FloatColumnIndex(position)
        y   == AsUnsigned(position.y)
    IN  IF idx < Len(store) /\ y < Len(store[idx + 1])
        THEN store[idx + 1][y + 1]
        ELSE None

-----------------------------------------------------------------------------
(* BlockType (blocks/block_type.rs) *)

BlockTypes == {"dirt", "grass", "wood", "leaf", "stone"}

\* first height of the dirt stratum; below it the stratum is stone
DIRT_START == 5

\* BlockType::from_y_position: the depth-based selection rule
from_y_position(y) == IF y < DIRT_START THEN "stone" ELSE "dirt"

-----------------------------------------------------------------------------
(* Terrain: Chunk::get_height_value and Chunk::create_blocks_data *)

\* Rust's % on i32: the remainder takes the sign of the dividend
Rem(a, b) == IF a >= 0 THEN a % b ELSE 0 - ((0 - a) % b)

\* The noise fields explored: noise_data is a pair <<a, b>> standing for the
\* NOISE_SIZE * NOISE_SIZE samples whose sample at tile (x, z) is -1.0 or 0.0
NoiseFields == {<<0, 0>>, <<0, 1>>, <<1, 0>>}

\* noise_data[i], in whole numbers: -1.0 or 0.0
NoiseSample(noise, i) ==
    LET x == i % NOISE_SIZE
        z == i \div NOISE_SIZE
    IN  ((noise[1] * (x + z) + noise[2]) % 2) - 1

\* (f32::powf(100.0, (sample + 1.0) * 0.5) - 1.0) as u32 for a whole sample:
\* 100^(k/2) = 10^k
HeightOfSample(sample) == AsUnsigned((10 ^ (sample + 1)) - 1)

\* the x (or z) noise-tile coordinate computed on one axis
NoiseCoord(chunk_c, local) ==
    LET c == (chunk_c * CHUNK_SIZE) + (local % NOISE_SIZE)
    IN  IF c < 0
        THEN NOISE_SIZE + Rem(c, NOISE_CHUNK_PER_ROW * CHUNK_SIZE)
        ELSE c

\* [ok, height]: ok = FALSE is the panic of indexing past the noise array
get_height_value(chunk_x, chunk_y, x, z, noise) ==
    LET nx  == NoiseCoord(chunk_x, x)
        nz  == NoiseCoord(chunk_y, z)
        idx == (nz * NOISE_SIZE) + nx
    IN  IF idx < 0 \/ idx >= NOISE_SIZE * NOISE_SIZE
        THEN [ok |-> FALSE, height |-> 0]
        ELSE [ok |-> TRUE, height |-> HeightOfSample(NoiseSample(noise, idx))]

\* a column filled for y in 0..y_top, the surface height left out
TerrainColumn_below_top(chunk_x, chunk_y, x, z, y_top) ==
    [i \in 1..y_top |->
        Some(Block(Vec3(x, i - 1, z), <<chunk_x, chunk_y>>, from_y_position(i - 1)))]

\* the column pushed for (x, z): y = 0 ..= y_top, topmost dirt turned to grass
TerrainColumn(chunk_x, chunk_y, x, z, y_top) ==
    [i \in 1..(y_top + 1) |->
        Some(Block(Vec3(x, i - 1, z), <<chunk_x, chunk_y>>,
                   IF from_y_position(i - 1) = "dirt" /\ i - 1 = y_top
                   THEN "grass" ELSE from_y_position(i - 1)))]

\* [ok, blocks]
create_blocks_data(chunk_x, chunk_y, noise) ==
    LET H(x, z) == get_height_value(chunk_x, chunk_y, x, z, noise)
    IN  IF \E x, z \in 0..(CHUNK_SIZE - 1) : ~H(x, z).ok
        THEN [ok |-> FALSE, blocks |-> EmptyStore]
        ELSE [ok |-> TRUE,
              blocks |-> [i \in 1..(CHUNK_SIZE * CHUNK_SIZE) |->
                            LET x == (i - 1) \div CHUNK_SIZE
                                z == (i - 1) % CHUNK_SIZE
                            IN  TerrainColumn(chunk_x, chunk_y, x, z, H(x, z).height)]]

-----------------------------------------------------------------------------
(* Text: a String is a sequence of one-character strings.  format!("{}"),  *)
(* str::parse, str::split and str::lines as persistence uses them.         *)

DigitChars == <<"0", "1", "2", "3", "4", "5", "6", "7", "8", "9">>

IsDigit(c) == \E d \in 1..Len(DigitChars) : DigitChars[d] = c

DigitValue(c) == (CHOOSE d \in 1..Len(DigitChars) : DigitChars[d] = c) - 1

RECURSIVE FormatNat(_)
FormatNat(n) ==
    IF n < Len(DigitChars) THEN <<DigitChars[n + 1]>>
    ELSE FormatNat(n \div Len(DigitChars)) \o <<DigitChars[(n % Len(DigitChars)) + 1]>>

\* format!("{}", v) for an i32, and for an f32 holding a whole number (Display
\* prints 3.0 as "3" and -1.0 as "-1")
FormatInt(n) == IF n < 0 THEN <<"-">> \o FormatNat(0 - n) ELSE FormatNat(n)

RECURSIVE DigitsValue(_)
DigitsValue(s) ==
    IF Len(s) = 0 THEN 0
    ELSE DigitsValue(SubSeq(s, 1, Len(s) - 1)) * Len(DigitChars) + DigitValue(s[Len(s)])

AllDigits(s) == Len(s) > 0 /\ \A k \in 1..Len(s) : IsDigit(s[k])

\* s.parse::<u32>(): digits with an optional leading "+"; [ok, value]
ParseU32(s) ==
    LET body == IF Len(s) > 0 /\ s[1] = "+" THEN Tail(s) ELSE s
    IN  IF AllDigits(body) THEN [ok |-> TRUE, value |-> DigitsValue(body)]
        ELSE [ok |-> FALSE, value |-> 0]

\* s.parse::<i32>(): digits with an optional leading "+" or "-"; [ok, value]
ParseI32(s) ==
    LET signed == Len(s) > 0 /\ s[1] \in {"+", "-"}
        body   == IF signed THEN Tail(s) ELSE s
    IN  IF ~AllDigits(body) THEN [ok |-> FALSE, value |-> 0]
        ELSE IF signed /\ s[1] = "-" THEN [ok |-> TRUE, value |-> 0 - DigitsValue(body)]
        ELSE [ok |-> TRUE, value |-> DigitsValue(body)]

\* s.split(sep) collected: the fields between the separators, at least one
\* (computed by halves: the last field of the left half continues in the right)
RECURSIVE Split(_, _)
Split(s, sep) ==
    IF \A k \in 1..Len(s) : s[k] # sep THEN <<s>>
    ELSE IF Len(s) = 1 THEN << << >>, << >> >>
    ELSE LET mid == Len(s) \div 2
             l   == Split(SubSeq(s, 1, mid), sep)
             r   == Split(SubSeq(s, mid + 1, Len(s)), sep)
         IN  SubSeq(l, 1, Len(l) - 1) \o <<l[Len(l)] \o r[1]>> \o Tail(r)

\* s.lines() collected: split at "\n", without the empty piece after a final "\n"
Lines(s) ==
    LET pieces == Split(s, "\n")
    IN  IF pieces[Len(pieces)] = << >> THEN SubSeq(pieces, 1, Len(pieces) - 1)
        ELSE pieces

\* the strings of ss joined in order (computed by halves)
RECURSIVE Concat(_)
Concat(ss) ==
    IF Len(ss) = 0 THEN << >>
    ELSE IF Len(ss) = 1 THEN ss[1]
    ELSE Concat(SubSeq(ss, 1, Len(ss) \div 2))
            \o Concat(SubSeq(ss, (Len(ss) \div 2) + 1, Len(ss)))

-----------------------------------------------------------------------------
(* Persistence: impl Saveable for Chunk, impl Loadable for Chunk *)

\* BlockType::to_id / BlockType::from_id: the stable numeric ids, in id order
TypeIds == <<"dirt", "grass", "wood", "leaf", "stone">>

to_id(block_type) == (CHOOSE k \in 1..Len(TypeIds) : TypeIds[k] = block_type) - 1

\* only ids that to_id writes are explored
from_id(id) == TypeIds[id + 1]

\* format!("{},{},{},{}\n", position.x, position.y, position.z, block_type.to_id())
BlockLine(block) ==
    FormatInt(block.position.x) \o <<",">> \o FormatInt(block.position.y) \o <<",">>
        \o FormatInt(block.position.z) \o <<",">> \o FormatNat(to_id(block.block_type))
        \o <<"\n">>

\* a save that stops writing a column at its first empty slot
ColumnData_until_gap(col) ==
    Concat([h \in 1..Len(col) |->
              IF \E g \in 1..h : col[g] = None THEN << >> ELSE BlockLine(col[h][1])])

\* the lines of the present blocks of one column, bottom up
ColumnData(col) ==
    Concat([h \in 1..Len(col) |-> IF col[h] = None THEN << >> ELSE BlockLine(col[h][1])])

\* the String save builds: every present block, column by column
SaveData(store) == Concat([i \in 1..Len(store) |-> ColumnData(store[i])])

\* format!("data/chunk{}_{}", x, y), without the directory
FileName(x, y) == <<"c", "h", "u", "n", "k">> \o FormatInt(x) \o <<"_">> \o FormatInt(y)

\* std::fs::create_dir("data") if missing, then std::fs::write(name, data)
WriteFile(d, name, data) ==
    [exists |-> TRUE,
     files  |-> [n \in (DOMAIN d.files) \cup {name} |->
                    IF n = name THEN data ELSE d.files[n]]]

\* Saveable::save: the directory after it
save(store, x, y, d) == WriteFile(d, FileName(x, y), SaveData(store))

LoadErr == [status |-> "err", blocks |-> EmptyStore]
LoadPanic == [status |-> "panic", blocks |-> EmptyStore]

\* one line of the file parsed into the store: a field that is no u32 is an
\* Err (`?`), a missing field is a panic (next().unwrap()), a column index
\* past the store is a panic (index out of bounds)
LoadLine(store, line, x, y) ==
    LET i == Split(line, ",")
    IN  IF ~ParseU32(i[1]).ok THEN LoadErr
        ELSE IF Len(i) < 2 THEN LoadPanic
        ELSE IF ~ParseU32(i[2]).ok THEN LoadErr
        ELSE IF Len(i) < 3 THEN LoadPanic
        ELSE IF ~ParseU32(i[3]).ok THEN LoadErr
        ELSE IF Len(i) < 4 THEN LoadPanic
        ELSE IF ~ParseU32(i[4]).ok THEN LoadErr
        ELSE LET bx  == ParseU32(i[1]).value
                 by  == ParseU32(i[2]).value
                 bz  == ParseU32(i[3]).value
                 block == Block(Vec3(bx, by, bz), <<x, y>>,
                                from_id(ParseU32(i[4]).value))
                 idx == (bx * CHUNK_SIZE) + bz
             IN  IF idx >= Len(store) THEN LoadPanic
                 ELSE [status |-> "ok",
                       blocks |-> [store EXCEPT ![idx + 1] =
                                     [GrowColumn(@, by) EXCEPT ![by + 1] = Some(block)]]]

\* for line in file_contents.lines() { ... } return Ok(blocks): the lines
\* lo..hi in order, stopping at the first that fails (computed by halves)
RECURSIVE LoadLines(_, _, _, _, _, _)
LoadLines(store, lines, lo, hi, x, y) ==
    IF lo > hi THEN [status |-> "ok", blocks |-> store]
    ELSE IF lo = hi THEN LoadLine(store, lines[lo], x, y)
    ELSE LET mid == (lo + hi) \div 2
             r   == LoadLines(store, lines, lo, mid, x, y)
         IN  IF r.status # "ok" THEN r
             ELSE LoadLines(r.blocks, lines, mid + 1, hi, x, y)

\* for entry in std::fs::read_dir("data")? { ... }: the entries in the order
\* the directory yields them
RECURSIVE LoadEntries(_, _, _, _)
LoadEntries(d, chunk_position, order, k) ==
    IF k > Len(order) THEN LoadErr                  \* Err("Not valid args")
    ELSE LET pieces == Split(order[k], "k")
             coords == Split(pieces[Len(pieces)], "_")
             x      == ParseI32(coords[1])
         IN  IF ~x.ok THEN LoadErr
             ELSE IF Len(coords) < 2 THEN LoadPanic
             ELSE IF ~ParseI32(coords[2]).ok THEN LoadErr
             ELSE LET y == ParseI32(coords[2])
                  IN  IF chunk_position = <<x.value, y.value>>
                      THEN IF FileName(x.value, y.value) \notin DOMAIN d.files
                           THEN LoadErr             \* read_to_string(..)?
                           ELSE LET lines == Lines(d.files[FileName(x.value, y.value)])
                                IN  LoadLines(EmptyStore, lines, 1, Len(lines),
                                              x.value, y.value)
                      ELSE LoadEntries(d, chunk_position, order, k + 1)

\* Loadable::load: [status, blocks], status "ok" (Ok(blocks)), "err" (Err) or "panic"
load(d, chunk_position, order) ==
    IF ~d.exists THEN LoadErr                       \* read_dir("data")?
    ELSE LoadEntries(d, chunk_position, order, 1)

\* the orders in which read_dir can yield the entries of the directory
Orders(d) ==
    LET names == DOMAIN d.files
    IN  {o \in [1..Cardinality(names) -> names] :
            \A a, b \in 1..Cardinality(names) : a # b => o[a] # o[b]}

-----------------------------------------------------------------------------
(* Structures: Tree::get_blocks (structures/tree.rs), Chunk::place_trees *)

\* world::MAX_TREES_PER_CHUNK
MAX_TREES_PER_CHUNK == 3

TrunkOffsets == <<Vec3(0, 1, 0), Vec3(0, 2, 0), Vec3(0, 3, 0)>>

LeafOffsets ==
    <<Vec3(0, 3, 1),   Vec3(0, 4, 1),   Vec3(1, 3, 1),   Vec3(1, 4, 1),
      Vec3(-1, 3, 1),  Vec3(-1, 4, 1),
      Vec3(0, 3, -1),  Vec3(0, 4, -1),  Vec3(1, 3, -1),  Vec3(1, 4, -1),
      Vec3(-1, 3, -1), Vec3(-1, 4, -1),
      Vec3(1, 3, 0),   Vec3(1, 4, 0),   Vec3(-1, 3, 0),  Vec3(-1, 4, 0),
      Vec3(0, 5, 0)>>

VecAdd(p, q) == Vec3(p.x + q.x, p.y + q.y, p.z + q.z)

\* utils::RelativeFromAbsolute: the position wrapped into its chunk
relative_from_absolute(p) == Vec3(p.x % CHUNK_SIZE, p.y, p.z % CHUNK_SIZE)

\* utils::ChunkFromPosition: the coordinate of the chunk owning the position
get_chunk_from_position_absolute(p) == <<p.x \div CHUNK_SIZE, p.z \div CHUNK_SIZE>>

\* Tree::get_blocks: the trunk blocks, then the leaf blocks
Tree_get_blocks(position) ==
    [k \in 1..(Len(TrunkOffsets) + Len(LeafOffsets)) |->
        LET p == IF k <= Len(TrunkOffsets)
                 THEN VecAdd(position, TrunkOffsets[k])
                 ELSE VecAdd(position, LeafOffsets[k - Len(TrunkOffsets)])
        IN  Block(relative_from_absolute(p), get_chunk_from_position_absolute(p),
                  IF k <= Len(TrunkOffsets) THEN "wood" ELSE "leaf")]

\* a loop that adds every tree block to the store, whichever chunk owns it
RECURSIVE RouteTreeBlocks_all_local(_, _, _, _, _)
RouteTreeBlocks_all_local(st, x, y, tree_blocks, k) ==
    IF k > Len(tree_blocks) \/ ~st.ok THEN st
    ELSE LET r == add_block(st.blocks, tree_blocks[k])
         IN  RouteTreeBlocks_all_local(
                 [ok |-> r.ok, blocks |-> r.blocks, outside_blocks |-> st.outside_blocks],
                 x, y, tree_blocks, k + 1)

\* for block in tree_blocks.iter() { add_block or outside_blocks.push }
\* st = [ok, blocks, outside_blocks]
RECURSIVE RouteTreeBlocks(_, _, _, _, _)
RouteTreeBlocks(st, x, y, tree_blocks, k) ==
    IF k > Len(tree_blocks) \/ ~st.ok THEN st
    ELSE LET block == tree_blocks[k]
             nxt == IF block.chunk = <<x, y>>
                    THEN LET r == add_block(st.blocks, block)
                         IN  [ok |-> r.ok, blocks |-> r.blocks,
                              outside_blocks |-> st.outside_blocks]
                    ELSE [st EXCEPT !.outside_blocks = Append(@, block)]
         IN  RouteTreeBlocks(nxt, x, y, tree_blocks, k + 1)

\* one iteration of the loop of place_trees, for the drawn column (tx, tz)
PlantTree(st, x, y, tx, tz) ==
    LET block_column == st.blocks[(tx * CHUNK_SIZE) + tz + 1]
    IN  IF Len(block_column) = 0                     \* expect("TODO: Fix this case -h")
           \/ block_column[Len(block_column)] = None \* .as_ref().unwrap()
        THEN [st EXCEPT !.ok = FALSE]
        ELSE RouteTreeBlocks(st, x, y,
                 Tree_get_blocks(AbsolutePosition(block_column[Len(block_column)][1])), 1)

\* Chunk::place_trees for the drawn columns draws (one pair <<tx, tz>> per tree)
RECURSIVE place_trees(_, _, _, _, _)
place_trees(st, x, y, draws, k) ==
    IF k > Len(draws) \/ ~st.ok THEN st
    ELSE place_trees(PlantTree(st, x, y, draws[k][1], draws[k][2]), x, y, draws, k + 1)

\* a constructor that places trees on a loaded chunk as well
Chunk_new_always_plants(x, y, noise, d, order, draws) ==
    LET r == load(d, <<x, y>>, order)
    IN  IF r.status = "panic"
        THEN [ok |-> FALSE, blocks |-> EmptyStore, outside_blocks |-> << >>,
              was_loaded |-> FALSE]
        ELSE LET g  == IF r.status = "ok" THEN [ok |-> TRUE, blocks |-> r.blocks]
                       ELSE create_blocks_data(x, y, noise)
                 st == place_trees([ok |-> g.ok, blocks |-> g.blocks,
                                    outside_blocks |-> << >>], x, y, draws, 1)
             IN  [ok |-> st.ok, blocks |-> st.blocks,
                  outside_blocks |-> st.outside_blocks,
                  was_loaded |-> (r.status = "ok")]

\* Chunk::new: [ok, blocks, outside_blocks, was_loaded]
Chunk_new(x, y, noise, d, order, draws) ==
    LET r == load(d, <<x, y>>, order)
    IN  IF r.status = "panic"
        THEN [ok |-> FALSE, blocks |-> EmptyStore, outside_blocks |-> << >>,
              was_loaded |-> FALSE]
        ELSE IF r.status = "ok"
        THEN [ok |-> TRUE, blocks |-> r.blocks, outside_blocks |-> << >>,
              was_loaded |-> TRUE]
        ELSE LET g  == create_blocks_data(x, y, noise)
                 st == place_trees([ok |-> g.ok, blocks |-> g.blocks,
                                    outside_blocks |-> << >>], x, y, draws, 1)
             IN  [ok |-> st.ok, blocks |-> st.blocks,
                  outside_blocks |-> st.outside_blocks, was_loaded |-> FALSE]

-----------------------------------------------------------------------------
(* Meshing: Chunk::build_mesh.  A loaded chunk of other_chunks is a record *)
(* [x, y, blocks].  The mesh is the sequence of emitted faces, each a      *)
(* record [position, face], in the order the quads are appended.           *)

\* FaceDirections::all() (blocks/block.rs)
FaceDirections == <<"TOP", "BOTTOM", "LEFT", "RIGHT", "FRONT", "BACK">>

\* FaceDirections::get_normal_vector: the unit normal of the face
get_normal_vector(face) ==
    CASE face = "TOP"    -> Vec3(0, 1, 0)
      [] face = "BOTTOM" -> Vec3(0, -1, 0)
      [] face = "LEFT"   -> Vec3(-1, 0, 0)
      [] face = "RIGHT"  -> Vec3(1, 0, 0)
      [] face = "FRONT"  -> Vec3(0, 0, 1)
      [] face = "BACK"   -> Vec3(0, 0, -1)

\* self.x + floor(face_position.x / CHUNK_SIZE), self.y + floor(face_position.z / CHUNK_SIZE)
target_chunk(cx, cy, face_position) ==
    <<cx + (face_position.x \div CHUNK_SIZE), cy + (face_position.z \div CHUNK_SIZE)>>

\* a target block that keeps the position of the neighbour unwrapped
target_block_unwrapped(face_position) == face_position

\* vec3((x + CHUNK_SIZE) % CHUNK_SIZE, y, (z + CHUNK_SIZE) % CHUNK_SIZE)
target_block(face_position) ==
    Vec3(Rem(face_position.x + CHUNK_SIZE, CHUNK_SIZE),
         face_position.y,
         Rem(face_position.z + CHUNK_SIZE, CHUNK_SIZE))

\* other_chunks.iter().find(|c| c.x == target_chunk_x && c.y == target_chunk_y)
find_chunk(others, c) ==
    LET hits == {k \in 1..Len(others) : others[k].x = c[1] /\ others[k].y = c[2]}
    IN  IF hits = {} THEN None
        ELSE Some(others[CHOOSE k \in hits : \A j \in hits : k <= j])

\* a fallback that hides a face only strictly below the surface height
unloaded_visible_strict(c, block_position, face_position, noise) ==
    LET h == get_height_value(c[1], c[2], AsUnsigned(block_position.x),
                              AsUnsigned(block_position.z), noise)
    IN  [ok |-> h.ok, visible |-> ~(AsUnsigned(face_position.y) < h.height)]

\* the None arm: face_position.y as u32 <= get_height_value(..) hides the
\* face; ok = FALSE is the panic of get_height_value
unloaded_visible(c, block_position, face_position, noise) ==
    LET h == get_height_value(c[1], c[2], AsUnsigned(block_position.x),
                              AsUnsigned(block_position.z), noise)
    IN  [ok |-> h.ok, visible |-> ~(AsUnsigned(face_position.y) <= h.height)]

\* a visibility test that never looks for a block inside the chunk itself
face_is_visible_unoccluded(store, cx, cy, others, noise, face_position) ==
    IF is_outside_bounds(face_position) THEN [ok |-> TRUE, visible |-> FALSE]
    ELSE IF is_outside_chunk(face_position)
    THEN LET c == target_chunk(cx, cy, face_position)
             t == find_chunk(others, c)
         IN  IF t # None
             THEN [ok |-> TRUE,
                   visible |-> ~exists_block_at(t[1].blocks, target_block(face_position))]
             ELSE unloaded_visible(c, target_block(face_position), face_position, noise)
    ELSE [ok |-> TRUE, visible |-> TRUE]

\* the value of is_visible for one face: [ok, visible]
face_is_visible(store, cx, cy, others, noise, face_position) ==
    IF is_outside_bounds(face_position) THEN [ok |-> TRUE, visible |-> FALSE]
    ELSE IF is_outside_chunk(face_position)
    THEN LET c == target_chunk(cx, cy, face_position)
             t == find_chunk(others, c)
         IN  IF t # None
             THEN [ok |-> TRUE,
                   visible |-> ~exists_block_at(t[1].blocks, target_block(face_position))]
             ELSE unloaded_visible(c, target_block(face_position), face_position, noise)
    ELSE [ok |-> TRUE, visible |-> ~exists_block_at(store, face_position)]

\* for face in faces.iter(): the six faces of one block, each with its test
BlockFaces(store, cx, cy, others, noise, block) ==
    [f \in 1..Len(FaceDirections) |->
        LET v == face_is_visible(store, cx, cy, others, noise,
                     VecAdd(get_normal_vector(FaceDirections[f]), block.position))
        IN  [position |-> block.position, face |-> FaceDirections[f],
             ok |-> v.ok, visible |-> v.visible]]

\* for y in 0..region.len(): the faces of the present blocks of one column
RegionFaces(store, cx, cy, others, noise, region) ==
    Concat([h \in 1..Len(region) |->
              IF region[h] = None THEN << >>
              ELSE BlockFaces(store, cx, cy, others, noise, region[h][1])])

IsVisible(e) == e.visible

\* FaceDirections::create_face_data (blocks/block.rs): the quad of one face,
\* four vertices and the six indices of its two triangles, counted from the
\* first vertex of the quad
create_face_data(block_position, face) ==
    [vertex_data |-> [v \in 1..4 |->
                        [position |-> block_position, face |-> face, corner |-> v - 1]],
     index_data  |-> <<0, 1, 2, 0, 2, 3>>]

\* an offset that counts the vertices of the quad just appended as well
indices_offset_after(vertex_len) == vertex_len

\* let indices_offset = vertex.len() as u32 - 4, read after the append
indices_offset(vertex_len) == vertex_len - 4

\* if is_visible { vertex.append(..); indices.append(..) } for the visible
\* faces lo..hi in order, vertex_len vertices being in the buffer before them
\* (computed by halves)
RECURSIVE AppendFaces(_, _, _, _)
AppendFaces(vertex_len, visible, lo, hi) ==
    IF lo > hi THEN [vertex |-> << >>, indices |-> << >>]
    ELSE IF lo = hi
    THEN LET d   == create_face_data(visible[lo].position, visible[lo].face)
             off == indices_offset(vertex_len + Len(d.vertex_data))
         IN  [vertex  |-> d.vertex_data,
              indices |-> [k \in 1..Len(d.index_data) |-> d.index_data[k] + off]]
    ELSE LET mid == (lo + hi) \div 2
             l   == AppendFaces(vertex_len, visible, lo, mid)
             r   == AppendFaces(vertex_len + Len(l.vertex), visible, mid + 1, hi)
         IN  [vertex |-> l.vertex \o r.vertex, indices |-> l.indices \o r.indices]

\* Chunk::build_mesh: [ok, faces, vertex, indices, indices_len]; ok = FALSE
\* when a visibility test panics (nothing is returned then).  faces lists the
\* emitted quads, vertex and indices are the contents of the two buffers and
\* indices_len is the returned count indices.len()
build_mesh(store, cx, cy, others, noise) ==
    LET examined == Concat([i \in 1..Len(store) |->
                              RegionFaces(store, cx, cy, others, noise, store[i])])
        ok == \A k \in 1..Len(examined) : examined[k].ok
        visible == IF ok THEN SelectSeq(examined, IsVisible) ELSE << >>
        buffers == AppendFaces(0, visible, 1, Len(visible))
    IN  [ok |-> ok,
         faces |-> [k \in 1..Len(visible) |->
                      [position |-> visible[k].position, face |-> visible[k].face]],
         vertex |-> buffers.vertex,
         indices |-> buffers.indices,
         indices_len |-> Len(buffers.indices)]

-----------------------------------------------------------------------------
(* Specification Spec: one chunk's store under add_block / remove_block    *)

\* the positions handed to the operations: inside the footprint, outside it
\* (z or x past the edge, x before it), and below the floor
InChunkPositions == {Vec3(x, y, 0) : x \in {0, 1}, y \in {0, 1}}
OutChunkPositions ==
    {Vec3(0, y, CHUNK_SIZE) : y \in {0, 1}} \cup
    {Vec3(CHUNK_SIZE, y, 0) : y \in {0, 1}} \cup
    {Vec3(-1, 0, 0)}
BelowPositions == {Vec3(0, -1, 0)}
Positions == InChunkPositions \cup OutChunkPositions \cup BelowPositions

\* a store after construction: loaded from an empty file, or flat terrain
InitStores == {EmptyStore, create_blocks_data(0, 0, <<0, 0>>).blocks}

NoDir == [exists |-> FALSE, files |-> << >>]

NoResult == [status |-> "none", blocks |-> EmptyStore]

NoMesh == [ok |-> TRUE, faces |-> << >>, vertex |-> << >>, indices |-> << >>,
           indices_len |-> 0]

Init ==
    /\ blocks \in InitStores
    /\ last = [op |-> "new", position |-> Vec3(0, 0, 0), after_add |-> FALSE]
    /\ aborted = FALSE
    /\ ops = 0
    /\ chunk = <<0, 0>>
    /\ outside_blocks = << >>
    /\ noise_data = <<0, 0>>
    /\ dir = NoDir
    /\ saved = << >>
    /\ result = NoResult
    /\ other_chunks = << >>
    /\ mesh = NoMesh
    /\ pending_trees = 0
    /\ locks = NoLocks
    /\ pc = NoThreads

AddBlock(position, block_type) ==
    LET r == add_block(blocks, Block(position, chunk, block_type))
    IN  /\ ~aborted
        /\ ops < MaxOps
        /\ ops' = ops + 1
        /\ blocks' = r.blocks
        /\ aborted' = ~r.ok
        /\ last' = [op |-> "add", position |-> position, after_add |-> FALSE]
        /\ UNCHANGED <<chunk, outside_blocks, noise_data, treeVars, lockVars, persistVars, meshVars>>

RemoveBlock(position) ==
    LET r == remove_block(blocks, position)
    IN  /\ ~aborted
        /\ ops < MaxOps
        /\ ops' = ops + 1
        /\ blocks' = r.blocks
        /\ aborted' = ~r.ok
        /\ last' = [op |-> "remove", position |-> position,
                    after_add |-> last.op = "add" /\ last.position = position]
        /\ UNCHANGED <<chunk, outside_blocks, noise_data, treeVars, lockVars, persistVars, meshVars>>

Next ==
    \/ \E p \in Positions : AddBlock(p, "dirt")
    \/ \E p \in Positions : RemoveBlock(p)

Spec == Init /\ [][Next]_vars

-----------------------------------------------------------------------------
(* Specification SpecPersist: a chunk that is edited, saved, loaded and     *)
(* constructed again over the directory "data"                              *)

\* the coordinates of the chunk under test (A) and of another chunk (B)
PersistChunks == {<<0, 0>>, <<-10, 2>>}
OtherChunk == <<1, -1>>

\* the blocks the player places and the positions the player clears
EditBlocks == {[position |-> Vec3(0, 1, 0), block_type |-> "wood"]}
EditRemovals == {Vec3(0, 0, 0)}

\* the store B saved in an earlier session
OtherStore ==
    add_block(EmptyStore, Block(Vec3(2, 0, 3), OtherChunk, "grass")).blocks

\* a sparse store A saved in an earlier session: a column with an empty slot
SparseStore(c) ==
    add_block(EmptyStore, Block(Vec3(0, 1, CHUNK_SIZE - 1), c, "leaf")).blocks

\* the directory when the program starts: missing, holding B's file, or
\* holding the files of A and B
InitDirs(c) ==
    LET dirB == save(OtherStore, OtherChunk[1], OtherChunk[2], NoDir)
    IN  {NoDir, dirB, save(SparseStore(c), c[1], c[2], dirB)}

\* the tree columns place_trees draws
TreeDraws == {<< >>, << <<0, 0>> >>, << <<CHUNK_SIZE - 1, 2>>, <<0, 0>> >>}

\* what a damaged save file holds: a field that is no integer, a line of
\* fewer than four fields, a good line followed by a bad one
CorruptContents ==
    {<<"x", ",", "0", ",", "0", ",", "0", "\n">>,
     <<"0", ",", "0", "\n">>,
     <<"0", ",", "5", ",", "0", ",", "2", "\n", "1", ",", "a", ",", "0", ",", "0", "\n">>}

InitPersist ==
    /\ chunk \in PersistChunks
    /\ noise_data \in {<<0, 0>>}
    /\ dir \in InitDirs(chunk)
    /\ \E order \in Orders(dir), draws \in TreeDraws :
          LET c == Chunk_new(chunk[1], chunk[2], noise_data, dir, order, draws)
          IN  /\ blocks = c.blocks
              /\ outside_blocks = c.outside_blocks
              /\ aborted = ~c.ok
              /\ saved = IF c.was_loaded THEN <<c.blocks>> ELSE << >>
              /\ last = [op |-> "new", was_loaded |-> c.was_loaded, draws |-> draws]
    /\ ops = 0
    /\ result = NoResult
    /\ other_chunks = << >>
    /\ mesh = NoMesh
    /\ pending_trees = 0
    /\ locks = NoLocks
    /\ pc = NoThreads

\* Saveable::save on the chunk under test
Save ==
    /\ ~aborted
    /\ ops < MaxOps
    /\ ops' = ops + 1
    /\ dir' = save(blocks, chunk[1], chunk[2], dir)
    /\ saved' = <<blocks>>
    /\ last' = [op |-> "save"]
    /\ UNCHANGED <<blocks, aborted, chunk, outside_blocks, noise_data, treeVars, lockVars, result, meshVars>>

\* the environment damages a file of the directory
Corrupt(name, contents) ==
    /\ ~aborted
    /\ ops < MaxOps
    /\ ops' = ops + 1
    /\ name \in DOMAIN dir.files
    /\ dir' = WriteFile(dir, name, contents)
    /\ saved' = IF name = FileName(chunk[1], chunk[2]) THEN << >> ELSE saved
    /\ last' = [op |-> "corrupt"]
    /\ UNCHANGED <<blocks, aborted, chunk, outside_blocks, noise_data, treeVars, lockVars, result, meshVars>>

\* Loadable::load for the coordinate c, the directory yielding its entries in order
Load(c, order) ==
    LET r == load(dir, c, order)
    IN  /\ ~aborted
        /\ ops < MaxOps
        /\ ops' = ops + 1
        /\ result' = r
        /\ aborted' = (r.status = "panic")
        /\ last' = [op |-> "load", coord |-> c]
        /\ UNCHANGED <<blocks, chunk, outside_blocks, noise_data, treeVars, lockVars, dir, saved, meshVars>>

\* Chunk::new for the coordinate of the chunk under test: the chunk is
\* constructed again (after an unload)
NewChunk(order, draws) ==
    LET c == Chunk_new(chunk[1], chunk[2], noise_data, dir, order, draws)
    IN  /\ ~aborted
        /\ ops < MaxOps
        /\ ops' = ops + 1
        /\ blocks' = c.blocks
        /\ outside_blocks' = c.outside_blocks
        /\ aborted' = ~c.ok
        /\ last' = [op |-> "new", was_loaded |-> c.was_loaded, draws |-> draws]
        /\ UNCHANGED <<chunk, noise_data, treeVars, lockVars, dir, saved, result, meshVars>>

NextPersist ==
    \/ \E b \in EditBlocks : AddBlock(b.position, b.block_type)
    \/ \E p \in EditRemovals : RemoveBlock(p)
    \/ Save
    \/ \E name \in DOMAIN dir.files, contents \in CorruptContents : Corrupt(name, contents)
    \/ \E c \in {chunk, OtherChunk}, order \in Orders(dir) : Load(c, order)
    \/ \E order \in Orders(dir), draws \in TreeDraws : NewChunk(order, draws)

SpecPersist == InitPersist /\ [][NextPersist]_vars

-----------------------------------------------------------------------------
(* Specification SpecMesh: a generated chunk that is edited and meshed      *)
(* while the registry loads its neighbours                                  *)

\* the coordinates of the chunk under test: the origin, a negative coordinate,
\* and the last chunk of the noise tile
MeshChunks == {<<0, 0>>, <<-1, 2>>,
               <<NOISE_CHUNK_PER_ROW - 1, NOISE_CHUNK_PER_ROW - 1>>}

\* the noise fields of the meshing runs: flat, and alternating heights
MeshNoise == {<<0, 0>>, <<1, 0>>}

\* the neighbours the registry loads: towards +x and towards -z
NeighbourSteps == {<<1, 0>>, <<0, -1>>}

\* the blocks the player places and the positions the player clears
MeshBlocks == {Vec3(CHUNK_SIZE - 1, 1, CHUNK_SIZE - 1), Vec3(0, 1, 0)}
MeshRemovals == {Vec3(1, 0, 0)}

\* the store of a loaded neighbour c: its terrain (none where generation
\* fails), edited in the corner column shared by its -x and +z edges: the
\* block at the floor removed and a block placed on top
NeighbourStore(c, noise) ==
    LET g   == create_blocks_data(c[1], c[2], noise).blocks
        col == g[CHUNK_SIZE]
        top == Vec3(0, Len(col), CHUNK_SIZE - 1)
        a   == add_block(g, Block(top, c, "wood")).blocks
    IN  IF Len(col) = 0 THEN a
        ELSE remove_block(a, Vec3(0, 0, CHUNK_SIZE - 1)).blocks

InitMesh ==
    /\ chunk \in MeshChunks
    /\ noise_data \in MeshNoise
    /\ blocks = create_blocks_data(chunk[1], chunk[2], noise_data).blocks
    /\ last = [op |-> "new", position |-> Vec3(0, 0, 0), after_add |-> FALSE]
    /\ aborted = FALSE
    /\ ops = 0
    /\ outside_blocks = << >>
    /\ dir = NoDir
    /\ saved = << >>
    /\ result = NoResult
    /\ other_chunks = << >>
    /\ mesh = NoMesh
    /\ pending_trees = 0
    /\ locks = NoLocks
    /\ pc = NoThreads

\* the registry loads the neighbour one step away (world.rs)
LoadNeighbour(step) ==
    LET c == <<chunk[1] + step[1], chunk[2] + step[2]>>
    IN  /\ ~aborted
        /\ find_chunk(other_chunks, c) = None
        /\ other_chunks' = Append(other_chunks,
                               [x |-> c[1], y |-> c[2],
                                blocks |-> NeighbourStore(c, noise_data)])
        /\ last' = [op |-> "neighbour"]
        /\ UNCHANGED <<blocks, aborted, ops, chunk, outside_blocks, noise_data, treeVars, lockVars,
                       persistVars, mesh>>

\* Chunk::build_mesh on the chunk under test, with the loaded neighbours
BuildMesh ==
    LET m == build_mesh(blocks, chunk[1], chunk[2], other_chunks, noise_data)
    IN  /\ ~aborted
        /\ mesh' = m
        /\ aborted' = ~m.ok
        /\ last' = [op |-> "mesh"]
        /\ UNCHANGED <<blocks, ops, chunk, outside_blocks, noise_data, treeVars, lockVars,
                       persistVars, other_chunks>>

NextMesh ==
    \/ \E p \in MeshBlocks : AddBlock(p, "wood")
    \/ \E p \in MeshRemovals : RemoveBlock(p)
    \/ \E step \in NeighbourSteps : LoadNeighbour(step)
    \/ BuildMesh

SpecMesh == InitMesh /\ [][NextMesh]_vars

-----------------------------------------------------------------------------
(* Specification SpecTerrain: Chunk::new on a chunk that has no save file:  *)
(* the terrain fill, then the loop of place_trees one iteration at a time   *)

\* the coordinates constructed: the origin, a negative coordinate, and the
\* first coordinates past the noise tile on either side and axis
TerrainChunks == {<<0, 0>>, <<-1, 2>>, <<NOISE_CHUNK_PER_ROW, 0>>,
                  <<0, NOISE_CHUNK_PER_ROW>>, <<0 - NOISE_CHUNK_PER_ROW, 1>>}

InitTerrain ==
    /\ chunk \in TerrainChunks
    /\ noise_data \in NoiseFields
    /\ blocks = EmptyStore
    /\ last = [op |-> "none"]
    /\ aborted = FALSE
    /\ ops = 0
    /\ outside_blocks = << >>
    /\ dir = NoDir
    /\ saved = << >>
    /\ result = NoResult
    /\ other_chunks = << >>
    /\ mesh = NoMesh
    /\ pending_trees = 0
    /\ locks = NoLocks
    /\ pc = NoThreads

\* Chunk::get_height_value for the column (x, z) of the chunk
HeightValue(x, z) ==
    LET h == get_height_value(chunk[1], chunk[2], x, z, noise_data)
    IN  /\ ~aborted
        /\ last.op \in {"none", "height"}
        /\ last' = [op |-> "height", x |-> x, z |-> z,
                    noise_x |-> NoiseCoord(chunk[1], x),
                    noise_z |-> NoiseCoord(chunk[2], z),
                    ok |-> h.ok]
        /\ aborted' = ~h.ok
        /\ UNCHANGED <<blocks, ops, chunk, outside_blocks, noise_data, persistVars,
                       meshVars, treeVars, lockVars>>

\* Chunk::new when load fails: create_blocks_data, then place_trees up to
\* its draw of number_of_trees
Generate(number_of_trees) ==
    LET g == create_blocks_data(chunk[1], chunk[2], noise_data)
    IN  /\ ~aborted
        /\ last.op \in {"none", "height"}
        /\ blocks' = g.blocks
        /\ aborted' = ~g.ok
        /\ pending_trees' = IF g.ok THEN number_of_trees ELSE 0
        /\ last' = [op |-> "generate"]
        /\ UNCHANGED <<ops, chunk, outside_blocks, noise_data, persistVars,
                       meshVars, lockVars>>

\* one iteration of the loop of place_trees, drawing the column (x, z)
PlantOne(x, z) ==
    LET column == blocks[(x * CHUNK_SIZE) + z + 1]
        top    == column[Len(column)][1]
        st     == PlantTree([ok |-> TRUE, blocks |-> blocks,
                             outside_blocks |-> outside_blocks],
                            chunk[1], chunk[2], x, z)
    IN  /\ ~aborted
        /\ pending_trees > 0
        /\ pending_trees' = pending_trees - 1
        /\ blocks' = st.blocks
        /\ outside_blocks' = st.outside_blocks
        /\ aborted' = ~st.ok
        /\ last' = IF st.ok
                   THEN [op |-> "tree", x |-> x, z |-> z,
                         base |-> AbsolutePosition(top), on |-> top.block_type]
                   ELSE [op |-> "tree", x |-> x, z |-> z]
        /\ UNCHANGED <<ops, chunk, noise_data, persistVars, meshVars, lockVars>>

NextTerrain ==
    \/ \E x, z \in 0..(CHUNK_SIZE - 1) : HeightValue(x, z)
    \/ \E n \in 0..(MAX_TREES_PER_CHUNK - 1) : Generate(n)
    \/ \E x, z \in 0..(CHUNK_SIZE - 1) : PlantOne(x, z)

SpecTerrain == InitTerrain /\ [][NextTerrain]_vars

-----------------------------------------------------------------------------
(* Specification SpecClick: the chunk under the player's clicks.  The chunk *)
(* is constructed by Chunk::new (terrain and trees); State::on_click then   *)
(* removes the faced block or places a dirt block against the faced face.   *)

\* World::place_block (world.rs): the block is added to the store of the
\* chunk that owns it; the store of any other chunk is left alone
World_place_block(store, c, block) ==
    IF block.chunk = c THEN add_block(store, block)
    ELSE [ok |-> TRUE, blocks |-> store]

\* World::remove_block (world.rs): the block is removed from the store of the
\* chunk that owns it, at its relative position
World_remove_block(store, c, block) ==
    IF block.chunk = c THEN remove_block(store, block.position)
    ELSE [ok |-> TRUE, blocks |-> store]

\* the chunks clicked in, and the columns whose blocks the player faces
ClickChunks == {<<0, 0>>, <<-1, 2>>}
ClickColumns == {<<0, 0>>}

\* player.facing_block: a block of the store in one of the faced columns
FacingBlocks(store) ==
    {store[t[1]][t[2]][1] :
        t \in {t \in {(c[1] * CHUNK_SIZE) + c[2] + 1 : c \in ClickColumns}
                     \X (1..MaxStoreHeight(store)) :
                  t[2] <= Len(store[t[1]]) /\ store[t[1]][t[2]] # None}}

InitClick ==
    /\ chunk \in ClickChunks
    /\ noise_data = <<0, 0>>
    /\ \E draws \in TreeDraws :
          LET c == Chunk_new(chunk[1], chunk[2], noise_data, NoDir, << >>, draws)
          IN  /\ blocks = c.blocks
              /\ outside_blocks = c.outside_blocks
              /\ aborted = ~c.ok
              /\ last = [op |-> "new", was_loaded |-> c.was_loaded, draws |-> draws]
    /\ ops = 0
    /\ dir = NoDir
    /\ saved = << >>
    /\ result = NoResult
    /\ other_chunks = << >>
    /\ mesh = NoMesh
    /\ pending_trees = 0
    /\ locks = NoLocks
    /\ pc = NoThreads

\* on_click(MouseButton::Left) facing facing_block
ClickLeft(facing_block) ==
    LET r == World_remove_block(blocks, chunk, facing_block)
    IN  /\ ~aborted
        /\ ops < MaxOps
        /\ ops' = ops + 1
        /\ blocks' = r.blocks
        /\ aborted' = ~r.ok
        /\ last' = [op |-> "left", facing_block |-> facing_block]
        /\ UNCHANGED <<chunk, outside_blocks, noise_data, treeVars, lockVars, persistVars, meshVars>>

\* on_click(MouseButton::Right) facing the face facing_face of facing_block
ClickRight(facing_block, facing_face) ==
    LET new_block_abs_position ==
            VecAdd(AbsolutePosition(facing_block), get_normal_vector(facing_face))
        new_block ==
            Block(relative_from_absolute(new_block_abs_position),
                  get_chunk_from_position_absolute(new_block_abs_position), "dirt")
        r == World_place_block(blocks, chunk, new_block)
    IN  /\ ~aborted
        /\ ops < MaxOps
        /\ ops' = ops + 1
        /\ blocks' = r.blocks
        /\ aborted' = ~r.ok
        /\ last' = [op |-> "right", facing_block |-> facing_block,
                    facing_face |-> facing_face, new_block |-> new_block]
        /\ UNCHANGED <<chunk, outside_blocks, noise_data, treeVars, lockVars, persistVars, meshVars>>

NextClick ==
    \/ \E b \in FacingBlocks(blocks) : ClickLeft(b)
    \/ \E b \in FacingBlocks(blocks), k \in 1..Len(FaceDirections) :
          ClickRight(b, FaceDirections[k])

SpecClick == InitClick /\ [][NextClick]_vars

-----------------------------------------------------------------------------
(* Specification SpecLocks: the RwLocks of two adjacent chunks A and B.     *)
(* Each chunk has the lock of its WorldChunk (Arc<RwLock<Chunk>>) and the   *)
(* lock of its store (BlockVec).  One thread runs build_mesh on A with B in *)
(* other_chunks, one runs build_mesh on B with A in other_chunks, one runs  *)
(* add_block / remove_block on A and one on B.  pc[t] is the index of the   *)
(* lock call thread t is at (0: not called yet); a thread at a lock call    *)
(* has made the call and has not been granted the lock yet.                 *)

Threads == {"meshA", "meshB", "writeA", "writeB"}

ChunkNames == {"A", "B"}

\* the chunk a thread works on (self) and, for a mesher, its neighbour
SelfChunk(t) == IF t \in {"meshA", "writeA"} THEN "A" ELSE "B"
OtherOf(c) == IF c = "A" THEN "B" ELSE "A"

\* std::sync::RwLock does not fix its priority policy: a waiting writer may
\* or may not block new readers
Policies == {"reader_preferring", "writer_preferring"}

\* the lock calls of build_mesh(&self, other_chunks), in program order, for
\* a block with a face inside the footprint and a face into the neighbour
build_mesh_locks ==
    <<[op |-> "read",   lock |-> "chunk",  of |-> "self",  at |-> "&self"],
      [op |-> "read",   lock |-> "chunk",  of |-> "other", at |-> "L119"],
      [op |-> "unlock", lock |-> "chunk",  of |-> "other", at |-> "L125"],
      [op |-> "read",   lock |-> "blocks", of |-> "self",  at |-> "L127"],
      [op |-> "read",   lock |-> "blocks", of |-> "self",  at |-> "L180/L70"],
      [op |-> "unlock", lock |-> "blocks", of |-> "self",  at |-> "L79"],
      [op |-> "read",   lock |-> "chunk",  of |-> "other", at |-> "L153"],
      [op |-> "unlock", lock |-> "chunk",  of |-> "other", at |-> "L155"],
      [op |-> "read",   lock |-> "chunk",  of |-> "other", at |-> "L160"],
      [op |-> "read",   lock |-> "blocks", of |-> "other", at |-> "L161/L70"],
      [op |-> "unlock", lock |-> "blocks", of |-> "other", at |-> "L79"],
      [op |-> "unlock", lock |-> "chunk",  of |-> "other", at |-> "L164"],
      [op |-> "unlock", lock |-> "blocks", of |-> "self",  at |-> "L195"],
      [op |-> "unlock", lock |-> "chunk",  of |-> "self",  at |-> "&self"]>>

\* the lock calls of add_block(&mut self, ..) and remove_block(&mut self, ..)
store_write_locks ==
    <<[op |-> "write",  lock |-> "chunk",  of |-> "self", at |-> "&mut self"],
      [op |-> "write",  lock |-> "blocks", of |-> "self", at |-> "L43/L61"],
      [op |-> "unlock", lock |-> "blocks", of |-> "self", at |-> "L59/L66"],
      [op |-> "unlock", lock |-> "chunk",  of |-> "self", at |-> "&mut self"]>>

Program(t) == IF t \in {"meshA", "meshB"} THEN build_mesh_locks ELSE store_write_locks

Running(t) == pc[t] \in 1..Len(Program(t))

\* the lock call thread t is at, and the chunk whose lock it names
Step(t) == Program(t)[pc[t]]
StepChunk(t) == IF Step(t).of = "self" THEN SelfChunk(t) ELSE OtherOf(SelfChunk(t))

\* the lock `kind` of chunk c
LockState(kind, c) == locks[kind][c]

Unlocked == [readers |-> [t \in Threads |-> 0], writer |-> "none"]

\* a thread has called write() on the lock and waits for it
WriterWaiting(kind, c) ==
    \E w \in Threads :
        /\ Running(w)
        /\ Step(w).op = "write" /\ Step(w).lock = kind /\ StepChunk(w) = c

\* RwLock::read returns: no writer holds the lock and, where writers are
\* preferred, none waits for it
CanRead(kind, c) ==
    /\ LockState(kind, c).writer = "none"
    /\ locks.policy = "writer_preferring" => ~WriterWaiting(kind, c)

\* RwLock::write returns: nobody holds the lock
CanWrite(kind, c) ==
    /\ LockState(kind, c).writer = "none"
    /\ \A t \in Threads : LockState(kind, c).readers[t] = 0

InitLocks ==
    /\ locks \in {[policy |-> p,
                   chunk  |-> [c \in ChunkNames |-> Unlocked],
                   blocks |-> [c \in ChunkNames |-> Unlocked]] : p \in Policies}
    /\ pc = [t \in Threads |-> 0]
    /\ chunk = <<0, 0>>
    /\ noise_data = <<0, 0>>
    /\ blocks = EmptyStore
    /\ last = [op |-> "none"]
    /\ aborted = FALSE
    /\ ops = 0
    /\ outside_blocks = << >>
    /\ dir = NoDir
    /\ saved = << >>
    /\ result = NoResult
    /\ other_chunks = << >>
    /\ mesh = NoMesh
    /\ pending_trees = 0

\* thread t is started: it makes the first lock call of its operation
Start(t) ==
    /\ pc[t] = 0
    /\ pc' = [pc EXCEPT ![t] = 1]
    /\ last' = [op |-> "start", thread |-> t]
    /\ UNCHANGED <<locks, blocks, aborted, ops, chunk, outside_blocks, noise_data,
                   treeVars, persistVars, meshVars>>

\* the read() call thread t is at returns its guard
ReadLock(t) ==
    /\ Running(t)
    /\ Step(t).op = "read"
    /\ CanRead(Step(t).lock, StepChunk(t))
    /\ locks' = [locks EXCEPT ![Step(t).lock][StepChunk(t)].readers[t] = @ + 1]
    /\ pc' = [pc EXCEPT ![t] = @ + 1]
    /\ last' = [op |-> "read", thread |-> t]
    /\ UNCHANGED <<blocks, aborted, ops, chunk, outside_blocks, noise_data,
                   treeVars, persistVars, meshVars>>

\* the write() call thread t is at returns its guard
WriteLock(t) ==
    /\ Running(t)
    /\ Step(t).op = "write"
    /\ CanWrite(Step(t).lock, StepChunk(t))
    /\ locks' = [locks EXCEPT ![Step(t).lock][StepChunk(t)].writer = t]
    /\ pc' = [pc EXCEPT ![t] = @ + 1]
    /\ last' = [op |-> "write", thread |-> t]
    /\ UNCHANGED <<blocks, aborted, ops, chunk, outside_blocks, noise_data,
                   treeVars, persistVars, meshVars>>

\* thread t drops the guard it took last on the lock
Unlock(t) ==
    /\ Running(t)
    /\ Step(t).op = "unlock"
    /\ locks' = IF LockState(Step(t).lock, StepChunk(t)).writer = t
                THEN [locks EXCEPT ![Step(t).lock][StepChunk(t)].writer = "none"]
                ELSE [locks EXCEPT ![Step(t).lock][StepChunk(t)].readers[t] = @ - 1]
    /\ pc' = [pc EXCEPT ![t] = @ + 1]
    /\ last' = [op |-> "unlock", thread |-> t]
    /\ UNCHANGED <<blocks, aborted, ops, chunk, outside_blocks, noise_data,
                   treeVars, persistVars, meshVars>>

NextLocks ==
    \/ \E t \in Threads : Start(t)
    \/ \E t \in Threads : ReadLock(t)
    \/ \E t \in Threads : WriteLock(t)
    \/ \E t \in Threads : Unlock(t)

SpecLocks == InitLocks /\ [][NextLocks]_vars

-----------------------------------------------------------------------------
(* Claims about the block store, checked under Spec *)

\* the caller contract of the data model: x, z in [0, CHUNK_SIZE) and y >= 0
InContract(position) == ~is_outside_chunk(position) /\ ~is_outside_bounds(position)

\* C1: for a block with x, z in [0, CHUNK_SIZE) and y >= 0, after add_block
\* exists_block_at at its position is true, and after a following remove_block
\* at that position it is false, whatever calls came before.
C1_ExistsAfterAddAndRemove ==
    /\ (last.op = "add" /\ InContract(last.position))
          => ~aborted /\ exists_block_at(blocks, last.position)
    /\ (last.op = "remove" /\ last.after_add /\ InContract(last.position))
          => ~aborted /\ ~exists_block_at(blocks, last.position)

\* C1 witness: a block was added inside the chunk and then removed, after an
\* earlier call on the chunk
C1_Witness ==
    /\ last.op = "remove" /\ last.after_add /\ InContract(last.position)
    /\ ops >= 3 /\ ~aborted

\* C2: no call shrinks a column; a completed remove_block changes nothing but
\* the target slot, which becomes None, and a completed add_block changes
\* nothing but the target column, which keeps or grows its length.
C2_ColumnLengthNeverDecreases ==
    [][ /\ \A i \in 1..Len(blocks) : Len(blocks'[i]) >= Len(blocks[i])
        /\ (last'.op = "remove" /\ ~aborted')
              => LET i == FloatColumnIndex(last'.position) + 1
                     h == AsUnsigned(last'.position.y) + 1
                 IN  /\ h <= Len(blocks[i])
                     /\ blocks' = [blocks EXCEPT ![i] = [@ EXCEPT ![h] = None]]
        /\ (last'.op = "add" /\ ~aborted')
              => LET i == FloatColumnIndex(last'.position) + 1
                 IN  \A j \in 1..Len(blocks) : j # i => blocks'[j] = blocks[j]
      ]_vars

\* C2 witness: a slot below the top of a column was removed: the slot is an empty
\* placeholder and the block above it is still at its height
C2_Witness ==
    /\ last.op = "remove" /\ ~aborted /\ last.position = Vec3(0, 0, 0)
    /\ Len(blocks[1]) = 2 /\ blocks[1][1] = None /\ blocks[1][2] # None

\* C3: add_block or remove_block at a position outside the footprint of the
\* chunk (is_outside_chunk) aborts and leaves every column as it was.
C3_OutsideChunkAborts ==
    [][ (last'.op \in {"add", "remove"} /\ is_outside_chunk(last'.position))
            => (aborted' /\ blocks' = blocks) ]_vars

\* C4: exists_block_at is false for every position outside the footprint and
\* for every height that is not a slot of its column, and it is true only when
\* a block is stored for exactly the queried position.
C4_ExistsOnlyAtQueriedPosition ==
    \A p \in Positions :
        /\ is_outside_chunk(p) => ~exists_block_at(blocks, p)
        /\ (~is_outside_chunk(p) /\ p.y >= Len(blocks[p.x * CHUNK_SIZE + p.z + 1]))
              => ~exists_block_at(blocks, p)
        /\ exists_block_at(blocks, p)
              => \E i \in 1..Len(blocks) : \E h \in 1..Len(blocks[i]) :
                    blocks[i][h] # None /\ blocks[i][h][1].position = p

-----------------------------------------------------------------------------
(* Claims about persistence, checked under SpecPersist *)

\* the (relative position, block type) pairs of the present blocks of a store
PresentPairs(store) ==
    {<<store[i][h][1].position, store[i][h][1].block_type>> :
        <<i, h>> \in {<<i, h>> \in (1..Len(store)) \X (1..(MaxStoreHeight(store))) :
                        h <= Len(store[i]) /\ store[i][h] # None}}

\* a column of the store holds an empty placeholder below a present block
HasGap(store) ==
    \E i \in 1..Len(store) : \E g, h \in 1..Len(store[i]) :
        g < h /\ store[i][g] = None /\ store[i][h] # None

MalformedLine(line) ==
    LET i == Split(line, ",")
    IN  \/ Len(i) < 4
        \/ \E k \in 1..4 : k <= Len(i) /\ ~ParseI32(i[k]).ok

\* the file of chunk c is in the directory and one of its lines is malformed
CorruptedFile(c) ==
    /\ FileName(c[1], c[2]) \in DOMAIN dir.files
    /\ LET lines == Lines(dir.files[FileName(c[1], c[2])])
       IN  \E k \in 1..Len(lines) : MalformedLine(lines[k])

\* C6: load returns a failure (it neither aborts nor returns a store) when the
\* directory is missing, when no file matches the coordinate, and when a line
\* of the matching file is not four comma-separated decimal integers.
C6_LoadFailsRecoverably ==
    (/\ last.op = "load"
     /\ \/ ~dir.exists
        \/ FileName(last.coord[1], last.coord[2]) \notin DOMAIN dir.files
        \/ CorruptedFile(last.coord))
        => result.status = "err"

\* C7: with the file of chunk A corrupted, load of another chunk B whose file
\* is well formed still returns B's saved blocks, and Chunk::new for A yields
\* what fresh generation yields, with nothing taken from A's file.
C7_CorruptFileOnlyRegeneratesItsChunk ==
    /\ (/\ last.op = "load" /\ last.coord = OtherChunk
        /\ CorruptedFile(chunk) /\ ~CorruptedFile(OtherChunk)
        /\ FileName(OtherChunk[1], OtherChunk[2]) \in DOMAIN dir.files)
          => /\ result.status = "ok"
             /\ PresentPairs(result.blocks) = PresentPairs(OtherStore)
    /\ (last.op = "new" /\ CorruptedFile(chunk))
          => LET fresh == Chunk_new(chunk[1], chunk[2], noise_data, NoDir, << >>,
                                    last.draws)
             IN  /\ ~aborted
                 /\ ~last.was_loaded
                 /\ blocks = fresh.blocks
                 /\ outside_blocks = fresh.outside_blocks

-----------------------------------------------------------------------------
(* Claims about meshing, checked under SpecMesh *)

\* a block is stored in the store at the relative position p
BlockAt(store, p) ==
    /\ ~is_outside_chunk(p)
    /\ p.y >= 0
    /\ LET col == store[(p.x * CHUNK_SIZE) + p.z + 1]
       IN  /\ p.y < Len(col)
           /\ col[p.y + 1] # None
           /\ col[p.y + 1][1].position = p

\* the faces of the present blocks of the chunk under test
BlockFaceSet ==
    {[position |-> blocks[t[1]][t[2]][1].position, face |-> FaceDirections[t[3]]] :
        t \in {t \in (1..Len(blocks)) \X (1..MaxStoreHeight(blocks))
                        \X (1..Len(FaceDirections)) :
                  t[2] <= Len(blocks[t[1]]) /\ blocks[t[1]][t[2]] # None}}

\* the neighbour position of a face: block position + face normal
Neighbour(e) == VecAdd(e.position, get_normal_vector(e.face))

\* the coordinate of the chunk that owns the neighbour position
NeighbourChunk(e) ==
    <<chunk[1] + (Neighbour(e).x \div CHUNK_SIZE),
      chunk[2] + (Neighbour(e).z \div CHUNK_SIZE)>>

\* the neighbour position in the local coordinates of the chunk that owns it
NeighbourLocal(e) ==
    Vec3(Neighbour(e).x % CHUNK_SIZE, Neighbour(e).y, Neighbour(e).z % CHUNK_SIZE)

Loaded(c) == \E k \in 1..Len(other_chunks) : <<other_chunks[k].x, other_chunks[k].y>> = c

LoadedStore(c) ==
    other_chunks[CHOOSE k \in 1..Len(other_chunks) :
                    <<other_chunks[k].x, other_chunks[k].y>> = c].blocks

\* the faces build_mesh emitted
Emitted == {mesh.faces[k] : k \in 1..Len(mesh.faces)}

Meshed == last.op = "mesh" /\ ~aborted

Face(position, face) == [position |-> position, face |-> face]

\* C8: in the mesh build_mesh returns, no quad is emitted twice, and a face
\* whose neighbour position has x, z inside the footprint is emitted exactly
\* when the neighbour position has y >= 0 and holds no block; so no face is
\* emitted between two adjacent present blocks or towards negative y.
C8_InChunkFaceEmittedIffUncovered ==
    Meshed =>
        LET emitted == Emitted
        IN  /\ Cardinality(emitted) = Len(mesh.faces)
            /\ \A e \in BlockFaceSet :
                  ~is_outside_chunk(Neighbour(e))
                     => (e \in emitted
                           <=> (Neighbour(e).y >= 0 /\ ~BlockAt(blocks, Neighbour(e))))

\* C8 witness: two stacked blocks beside a cleared column were meshed: the
\* faces between them and the face towards negative y are absent, the face
\* towards the cleared column is emitted
C8_Witness ==
    /\ Meshed
    /\ BlockAt(blocks, Vec3(0, 0, 0)) /\ BlockAt(blocks, Vec3(0, 1, 0))
    /\ ~BlockAt(blocks, Vec3(1, 0, 0))
    /\ Face(Vec3(0, 0, 0), "RIGHT") \in Emitted
    /\ Face(Vec3(0, 0, 0), "TOP") \notin Emitted
    /\ Face(Vec3(0, 1, 0), "BOTTOM") \notin Emitted
    /\ Face(Vec3(0, 0, 0), "BOTTOM") \notin Emitted

\* C9: in the mesh build_mesh returns, a face whose neighbour position is
\* outside the footprint (y >= 0) and whose target chunk is not loaded is
\* absent exactly when its y is <= get_height_value of the target chunk at
\* the neighbour's x and z wrapped modulo CHUNK_SIZE.
C9_UnloadedNeighbourUsesHeight ==
    Meshed =>
        LET emitted == Emitted
        IN  \A e \in BlockFaceSet :
               (/\ is_outside_chunk(Neighbour(e))
                /\ Neighbour(e).y >= 0
                /\ ~Loaded(NeighbourChunk(e)))
                  => (e \notin emitted
                        <=> Neighbour(e).y <=
                              get_height_value(NeighbourChunk(e)[1], NeighbourChunk(e)[2],
                                               NeighbourLocal(e).x, NeighbourLocal(e).z,
                                               noise_data).height)

\* C9 witness: chunk (0,0) was meshed with no neighbour loaded, over terrain of
\* height 0: on its +x edge the face at y = 0 is hidden (0 <= height) and the
\* face of the block placed at y = 1 is emitted
C9_Witness ==
    /\ Meshed
    /\ chunk = <<0, 0>> /\ other_chunks = << >>
    /\ get_height_value(1, 0, 0, CHUNK_SIZE - 1, noise_data).height = 0
    /\ BlockAt(blocks, Vec3(CHUNK_SIZE - 1, 0, CHUNK_SIZE - 1))
    /\ BlockAt(blocks, Vec3(CHUNK_SIZE - 1, 1, CHUNK_SIZE - 1))
    /\ Face(Vec3(CHUNK_SIZE - 1, 0, CHUNK_SIZE - 1), "RIGHT") \notin Emitted
    /\ Face(Vec3(CHUNK_SIZE - 1, 1, CHUNK_SIZE - 1), "RIGHT") \in Emitted

\* C10: in the mesh build_mesh returns, a face whose neighbour position is
\* outside the footprint (y >= 0) and whose target chunk (the coordinate plus
\* the floor of neighbour x, z over CHUNK_SIZE) is loaded is emitted exactly
\* when that chunk holds no block at the neighbour position wrapped into
\* [0, CHUNK_SIZE), whatever the height function says.
C10_LoadedNeighbourIsAuthoritative ==
    Meshed =>
        LET emitted == Emitted
        IN  \A e \in BlockFaceSet :
               (/\ is_outside_chunk(Neighbour(e))
                /\ Neighbour(e).y >= 0
                /\ Loaded(NeighbourChunk(e)))
                  => (e \in emitted
                        <=> ~BlockAt(LoadedStore(NeighbourChunk(e)), NeighbourLocal(e)))

\* C10 witness: a chunk at a negative coordinate was meshed with both
\* neighbours loaded: towards -z a face is emitted although the height says
\* hidden, towards +x a face is hidden although the height says visible
C10_Witness ==
    /\ Meshed
    /\ chunk[1] < 0
    /\ Len(other_chunks) = 2
    /\ LET back  == Face(Vec3(0, 0, 0), "BACK")
           right == Face(Vec3(CHUNK_SIZE - 1, 1, CHUNK_SIZE - 1), "RIGHT")
       IN  /\ back \in BlockFaceSet /\ right \in BlockFaceSet
           /\ back \in Emitted
           /\ 0 <= get_height_value(chunk[1], chunk[2] - 1, 0, CHUNK_SIZE - 1,
                                    noise_data).height
           /\ right \notin Emitted
           /\ 1 > get_height_value(chunk[1] + 1, chunk[2], 0, CHUNK_SIZE - 1,
                                   noise_data).height


\* C11: the mesh build_mesh returns for k emitted faces holds 4k vertices and
\* 6k indices, the returned count is 6k, and the six indices of the i-th
\* emitted face (i from 0) lie in 4i .. 4i+3.
C11_MeshBuffersSelfConsistent ==
    Meshed =>
        LET k == Len(mesh.faces)
        IN  /\ Len(mesh.vertex) = 4 * k
            /\ Len(mesh.indices) = 6 * k
            /\ mesh.indices_len = 6 * k
            /\ \A j \in 1..Len(mesh.indices) :
                  LET i == (j - 1) \div 6
                  IN  mesh.indices[j] \in (4 * i)..((4 * i) + 3)

\* C11 witness: a mesh of several faces was returned
C11_Witness == Meshed /\ Len(mesh.faces) >= 3 /\ mesh.indices_len >= 18

-----------------------------------------------------------------------------
(* Claims about terrain generation and tree placement, checked under       *)
(* SpecTerrain                                                              *)

\* the present blocks of a store
StoredBlocks(store) ==
    {store[t[1]][t[2]][1] :
        t \in {t \in (1..Len(store)) \X (1..MaxStoreHeight(store)) :
                  t[2] <= Len(store[t[1]]) /\ store[t[1]][t[2]] # None}}

\* C12: an iteration of place_trees appends to outside_blocks exactly the
\* generated tree blocks owned by another chunk, in order, and stores none of
\* them; it stores every generated block owned by the planting chunk at its
\* position, and appends none of those to outside_blocks.
C12_TreeBlocksRoutedByOwner ==
    [][ (last'.op = "tree" /\ ~aborted')
          => LET tree_blocks == Tree_get_blocks(last'.base)
                 Foreign(b)  == b.chunk # chunk
                 Local(b)    == b.chunk = chunk
                 foreign     == SelectSeq(tree_blocks, Foreign)
                 local       == SelectSeq(tree_blocks, Local)
             IN  /\ outside_blocks' = outside_blocks \o foreign
                 /\ \A k \in 1..Len(local) :
                       /\ BlockAt(blocks', local[k].position)
                       /\ local[k] \in StoredBlocks(blocks')
                 /\ \A k \in 1..Len(foreign) : foreign[k] \notin StoredBlocks(blocks')
                 /\ StoredBlocks(blocks') \subseteq
                       StoredBlocks(blocks) \cup {local[k] : k \in 1..Len(local)}
      ]_vars

\* C12 witness: a tree planted on an edge column: some of its blocks are in
\* outside_blocks and its trunk is in the store
C12_Witness ==
    /\ last.op = "tree" /\ ~aborted
    /\ Len(outside_blocks) >= 3
    /\ \E b \in StoredBlocks(blocks) : b.block_type = "wood"
    /\ \E b \in StoredBlocks(blocks) : b.block_type = "leaf"

\* C15: the store create_blocks_data returns has, in every column (x, z),
\* get_height_value(chunk, x, z) + 1 slots, each holding the block of its
\* position: heights 0 up to and including the surface height, no empty slot.
C15_GeneratedColumnsDense ==
    (last.op = "generate" /\ ~aborted)
        => \A x, z \in 0..(CHUNK_SIZE - 1) :
              LET col == blocks[(x * CHUNK_SIZE) + z + 1]
                  top == get_height_value(chunk[1], chunk[2], x, z, noise_data).height
              IN  /\ Len(col) = top + 1
                  /\ \A h \in 1..Len(col) :
                        col[h] # None /\ col[h][1].position = Vec3(x, h - 1, z)

\* C15 witness: a chunk at a negative coordinate was generated over terrain
\* of two surface heights
C15_Witness ==
    /\ last.op = "generate" /\ ~aborted
    /\ chunk[1] < 0
    /\ \E i \in 1..Len(blocks) : Len(blocks[i]) = 1
    /\ \E i \in 1..Len(blocks) : Len(blocks[i]) > 1

\* C16: on each axis the noise-tile coordinate get_height_value computes is
\* (chunk coordinate * CHUNK_SIZE + local) mod NOISE_SIZE, in 0 .. NOISE_SIZE-1,
\* and the sample index z * NOISE_SIZE + x is inside the noise array.
C16_NoiseCoordinateWraps ==
    last.op = "height"
        => /\ last.noise_x = ((chunk[1] * CHUNK_SIZE) + last.x) % NOISE_SIZE
           /\ last.noise_z = ((chunk[2] * CHUNK_SIZE) + last.z) % NOISE_SIZE
           /\ ((last.noise_z * NOISE_SIZE) + last.noise_x) \in
                 0..((NOISE_SIZE * NOISE_SIZE) - 1)
           /\ last.ok

\* C17: after the terrain fill and after each planted tree of Chunk::new (no
\* remove_block was called), no column holds an empty slot below a block.
C17_NoGapWithoutRemoval ==
    (last.op \in {"generate", "tree"} /\ ~aborted) => ~HasGap(blocks)

\* C20: an iteration of place_trees on a generated chunk does not abort: the
\* drawn column is non-empty and its last slot holds a block, also when the
\* column received trunk or leaf blocks from an earlier tree.
C20_PlaceTreesNeverAborts ==
    last.op = "tree" => ~aborted

\* C20 witness: the last tree of a call was planted on a column whose top is
\* a trunk or leaf block of an earlier tree
C20_Witness ==
    /\ last.op = "tree" /\ ~aborted
    /\ pending_trees = 0
    /\ last.on \in {"wood", "leaf"}

-----------------------------------------------------------------------------
(* Claims about Chunk::new, checked under SpecPersist *)

\* C13: Chunk::new runs place_trees exactly once, after the terrain fill, when
\* load failed; when load succeeded the store is exactly the loaded blocks,
\* outside_blocks is empty and no tree was placed.
C13_TreesOnlyOnFreshChunks ==
    (last.op = "new" /\ ~aborted)
        => LET loads  == {load(dir, chunk, order) : order \in Orders(dir)}
               loaded == {r \in loads : r.status = "ok"}
               filled == create_blocks_data(chunk[1], chunk[2], noise_data)
               once   == place_trees([ok |-> filled.ok, blocks |-> filled.blocks,
                                      outside_blocks |-> << >>],
                                     chunk[1], chunk[2], last.draws, 1)
           IN  /\ last.was_loaded = (loaded # {})
               /\ last.was_loaded
                     => /\ \A r \in loaded : blocks = r.blocks
                        /\ outside_blocks = << >>
               /\ ~last.was_loaded
                     => /\ blocks = once.blocks
                        /\ outside_blocks = once.outside_blocks

\* C13 witness: a chunk generated with trees was saved and constructed again
\* from its file, with tree columns drawn that were not used
C13_Witness ==
    /\ last.op = "new" /\ ~aborted
    /\ last.was_loaded
    /\ last.draws # << >>
    /\ ops > 0
    /\ \E b \in StoredBlocks(blocks) : b.block_type = "wood"

-----------------------------------------------------------------------------
(* Claims about the two lookups of the store, checked under Spec *)

\* the positions the lookups are asked about: those of the operations, and
\* positions one step before the footprint on z or on x
QueryPositions ==
    Positions \cup {Vec3(1, 0, -1), Vec3(-1, 0, 1), Vec3(1, -1, 0)}

\* C19: for every store and every position, inside or outside the footprint
\* and at any height, exists_block_at returns true exactly when
\* get_block_at_relative returns a block.
C19_LookupsAgree ==
    \A p \in QueryPositions :
        exists_block_at(blocks, p) <=> (get_block_at_relative(blocks, p) # None)

-----------------------------------------------------------------------------
(* Claims about the chunk under clicks, checked under SpecClick *)

\* C18: in every state reached from Chunk::new by on_click removals and
\* placements, each present block stored in column x * CHUNK_SIZE + z at slot
\* h has the relative position (x, h, z), with x, z in [0, CHUNK_SIZE) and
\* h >= 0; a placement never replaces a present block by a block of another
\* position.
C18_StoredBlocksAtOwnPosition ==
    ~aborted
        => \A i \in 1..Len(blocks) : \A h \in 1..Len(blocks[i]) :
              blocks[i][h] # None
                 => blocks[i][h][1].position =
                       Vec3((i - 1) \div CHUNK_SIZE, h - 1, (i - 1) % CHUNK_SIZE)

-----------------------------------------------------------------------------
(* Claims about the chunk locks, checked under SpecLocks *)

\* thread t holds a lock of chunk c
Holds(t, c) ==
    \E kind \in {"chunk", "blocks"} :
        LockState(kind, c).writer = t \/ LockState(kind, c).readers[t] > 0

\* thread t is at a lock call that does not return in this state
Blocked(t) ==
    /\ Running(t)
    /\ \/ Step(t).op = "read"  /\ ~CanRead(Step(t).lock, StepChunk(t))
       \/ Step(t).op = "write" /\ ~CanWrite(Step(t).lock, StepChunk(t))

\* thread t, holding a lock of chunk c, is at a lock call on chunk d
TakesAfter(t, c, d) ==
    /\ Holds(t, c)
    /\ Running(t) /\ Step(t).op # "unlock" /\ StepChunk(t) = d

\* the chunk locks are taken in one global order: no two threads take the
\* locks of two chunks in opposite orders
LockOrderConsistent ==
    ~ \E t, u \in Threads :
          t # u /\ TakesAfter(t, "A", "B") /\ TakesAfter(u, "B", "A")

\* no deadlock: whenever a thread is blocked, some thread can still move
NoDeadlock ==
    (\E t \in Threads : Blocked(t))
        => \E t \in Threads : pc[t] = 0 \/ (Running(t) /\ ~Blocked(t))

\* C14: when the two adjacent chunks run build_mesh concurrently, each
\* holding read access to itself and taking read access to the other, with
\* add_block / remove_block writers waiting on the same chunks, the chunk
\* locks are taken in a consistent global order and no deadlock state is
\* reachable (so that every started build_mesh can complete).
C14_MeshLocksOrderedAndDeadlockFree ==
    LockOrderConsistent /\ NoDeadlock

=============================================================================
